---- MODULE Spec2Model ----
(***************************************************************************)
(* Model of GroupSpec::validate (crates/weaver_semconv/src/group.rs).      *)
(*                                                                         *)
(* A group record and a provenance string are drawn from bounded sets, and *)
(* the single operation Validate applies GroupSpec::validate to them.      *)
(*                                                                         *)
(* Encoding of the Rust values:                                            *)
(*   Option<T>        a set: {} is None, {x} is Some(x)                    *)
(*   Vec<T>           a sequence                                           *)
(*   enum variants    strings named as in the source                       *)
(*   Examples         [variant, values]: String(s) holds <<s>>,            *)
(*                    Strings(v) holds v                                   *)
(*   AttributeSpec    [variant |-> "Id", id, type, brief, deprecated,      *)
(*                    examples]  or  [variant |-> "Ref", ref]              *)
(*   Error            [kind, path_or_url, group_id, attribute_id, error];  *)
(*                    attribute_id is {} for the kinds that have no such   *)
(*                    field; CompoundError is [kind, errors]               *)
(*   Result<(),Error> [tag |-> "Ok"] or [tag |-> "Err", err |-> e]         *)
(***************************************************************************)
EXTENDS Integers, Sequences, FiniteSets, TLC

VARIABLES group, path_or_url, pc, result

vars == <<group, path_or_url, pc, result>>

(***************************************************************************)
(* Bounds of the model.                                                    *)
(***************************************************************************)
\* Longest attribute list of a record of HeaderGroups.
MaxAttrs == 2

\* Longest attribute list of a record of AttributeGroups.
MaxAttrsExhaustive == 1

(***************************************************************************)
(* Option and Vec helpers.                                                 *)
(***************************************************************************)
None == {}

Some(x) == {x}

is_none(o) == o = {}

is_some(o) == o # {}

is_empty(v) == Len(v) = 0

(***************************************************************************)
(* Types of the record.                                                    *)
(***************************************************************************)
GroupType ==
    {"AttributeGroup", "Span", "Event", "Metric", "MetricGroup", "Resource", "Scope"}

SpanKindSpec == {"Internal", "Client", "Server", "Producer", "Consumer"}

InstrumentSpec == {"UpDownCounter", "Counter", "Gauge", "Histogram"}

\* AttributeType::PrimitiveOrArray(String), ...(Strings), and one other
\* primitive standing for the types that are neither.
TypeString == "String"

TypeStrings == "Strings"

TypeInt == "Int"

AttributeType == {TypeString, TypeStrings, TypeInt}

(***************************************************************************)
(* The error values.                                                       *)
(***************************************************************************)
MsgSpanKind == "This group contains a span_kind field but the type is not set to span."

MsgEvents == "This group contains an events field but the type is not set to span."

MsgEventName ==
    "This group contains an event type but the prefix is empty and the name is not set."

MsgMetricName == "This group contains a metric type but the metric_name is not set."

MsgInstrument == "This group contains a metric type but the instrument is not set."

MsgUnit == "This group contains a metric type but the unit is not set."

MsgNoBrief == "This attribute is not deprecated and does not contain a brief field."

MsgStringExamples == "This attribute is a string but it does not contain any examples."

MsgStringsExamples ==
    "This attribute is a string array but it does not contain any examples."

InvalidGroup(path, gid, msg) ==
    [kind |-> "InvalidGroup", path_or_url |-> path, group_id |-> gid,
     attribute_id |-> None, error |-> msg]

InvalidMetric(path, gid, msg) ==
    [kind |-> "InvalidMetric", path_or_url |-> path, group_id |-> gid,
     attribute_id |-> None, error |-> msg]

InvalidAttribute(path, gid, aid, msg) ==
    [kind |-> "InvalidAttribute", path_or_url |-> path, group_id |-> gid,
     attribute_id |-> Some(aid), error |-> msg]

CompoundError(errs) == [kind |-> "CompoundError", errors |-> errs]

Ok == [tag |-> "Ok"]

Err(e) == [tag |-> "Err", err |-> e]

(***************************************************************************)
(* GroupSpec::validate, rule by rule.  Each operator yields the errors the *)
(* corresponding block of the function pushes, in push order.              *)
(***************************************************************************)
\* AttributeSpec::id()
AttributeId(a) == IF a.variant = "Id" THEN a.id ELSE a.ref

\* SpanFieldErrors with the events check chained as an else-if.
SpanFieldErrors_ElseIf(g, path) ==
    IF g.type # "Span"
    THEN IF is_some(g.span_kind)
         THEN <<InvalidGroup(path, g.id, MsgSpanKind)>>
         ELSE IF ~is_empty(g.events)
              THEN <<InvalidGroup(path, g.id, MsgEvents)>>
              ELSE <<>>
    ELSE <<>>

\* if self.type != Span { if span_kind.is_some() {..} if !events.is_empty() {..} }
SpanFieldErrors(g, path) ==
    IF g.type # "Span"
    THEN (IF is_some(g.span_kind)
          THEN <<InvalidGroup(path, g.id, MsgSpanKind)>> ELSE <<>>)
         \o
         (IF ~is_empty(g.events)
          THEN <<InvalidGroup(path, g.id, MsgEvents)>> ELSE <<>>)
    ELSE <<>>

\* EventNameErrors without the test of the group type.
EventNameErrors_AnyType(g, path) ==
    IF g.prefix = "" /\ is_none(g.name)
    THEN <<InvalidGroup(path, g.id, MsgEventName)>>
    ELSE <<>>

\* EventNameErrors with the prefix and name conditions joined by ||.
EventNameErrors_OrName(g, path) ==
    IF g.type = "Event" /\ (g.prefix = "" \/ is_none(g.name))
    THEN <<InvalidGroup(path, g.id, MsgEventName)>>
    ELSE <<>>

\* if self.type == Event && self.prefix.is_empty() && self.name.is_none()
EventNameErrors(g, path) ==
    IF g.type = "Event" /\ g.prefix = "" /\ is_none(g.name)
    THEN <<InvalidGroup(path, g.id, MsgEventName)>>
    ELSE <<>>

\* MetricErrors stopping at the first missing field.
MetricErrors_FirstOnly(g, path) ==
    IF g.type = "Metric"
    THEN IF is_none(g.metric_name)
         THEN <<InvalidMetric(path, g.id, MsgMetricName)>>
         ELSE IF is_none(g.instrument)
              THEN <<InvalidMetric(path, g.id, MsgInstrument)>>
              ELSE IF is_none(g.unit)
                   THEN <<InvalidMetric(path, g.id, MsgUnit)>>
                   ELSE <<>>
    ELSE <<>>

\* if self.type == Metric { metric_name / instrument / unit is_none() }
MetricErrors(g, path) ==
    IF g.type = "Metric"
    THEN (IF is_none(g.metric_name)
          THEN <<InvalidMetric(path, g.id, MsgMetricName)>> ELSE <<>>)
         \o
         (IF is_none(g.instrument)
          THEN <<InvalidMetric(path, g.id, MsgInstrument)>> ELSE <<>>)
         \o
         (IF is_none(g.unit)
          THEN <<InvalidMetric(path, g.id, MsgUnit)>> ELSE <<>>)
    ELSE <<>>

\* BriefErrors that does not look at deprecated.
BriefErrors_IgnoreDeprecated(g, path, a) ==
    IF a.variant = "Id"
    THEN IF is_none(a.brief)
         THEN <<InvalidAttribute(path, g.id, AttributeId(a), MsgNoBrief)>>
         ELSE <<>>
    ELSE <<>>

\* BriefErrors that also reports a reference, which holds no brief.
BriefErrors_RefToo(g, path, a) ==
    IF a.variant = "Id"
    THEN IF is_none(a.brief) /\ is_none(a.deprecated)
         THEN <<InvalidAttribute(path, g.id, AttributeId(a), MsgNoBrief)>>
         ELSE <<>>
    ELSE <<InvalidAttribute(path, g.id, AttributeId(a), MsgNoBrief)>>

\* BriefErrors placed after the `continue` taken when examples are present.
BriefErrors_AfterContinue(g, path, a) ==
    IF a.variant = "Id"
    THEN IF is_none(a.examples) /\ is_none(a.brief) /\ is_none(a.deprecated)
         THEN <<InvalidAttribute(path, g.id, AttributeId(a), MsgNoBrief)>>
         ELSE <<>>
    ELSE <<>>

\* match attribute { Id { brief, deprecated, .. } => ..., Ref { .. } => {} }
BriefErrors(g, path, a) ==
    IF a.variant = "Id"
    THEN IF is_none(a.brief) /\ is_none(a.deprecated)
         THEN <<InvalidAttribute(path, g.id, AttributeId(a), MsgNoBrief)>>
         ELSE <<>>
    ELSE <<>>

\* ExamplesErrors without the `continue` taken when examples are present.
ExamplesErrors_NoContinue(g, path, a) ==
    IF a.variant = "Id"
    THEN (IF a.type = TypeString
          THEN <<InvalidAttribute(path, g.id, AttributeId(a), MsgStringExamples)>>
          ELSE <<>>)
         \o
         (IF a.type = TypeStrings
          THEN <<InvalidAttribute(path, g.id, AttributeId(a), MsgStringsExamples)>>
          ELSE <<>>)
    ELSE <<>>

\* if let Id { type, examples, .. } = attribute { if examples.is_some() { continue } .. }
ExamplesErrors(g, path, a) ==
    IF a.variant = "Id"
    THEN IF is_some(a.examples)
         THEN <<>>
         ELSE (IF a.type = TypeString
               THEN <<InvalidAttribute(path, g.id, AttributeId(a), MsgStringExamples)>>
               ELSE <<>>)
              \o
              (IF a.type = TypeStrings
               THEN <<InvalidAttribute(path, g.id, AttributeId(a), MsgStringsExamples)>>
               ELSE <<>>)
    ELSE <<>>

\* AttributeErrors with the two blocks of the loop body exchanged.
RECURSIVE AttributeErrors_ExamplesFirst(_, _, _)
AttributeErrors_ExamplesFirst(g, path, i) ==
    IF i > Len(g.attributes)
    THEN <<>>
    ELSE ExamplesErrors(g, path, g.attributes[i])
         \o BriefErrors(g, path, g.attributes[i])
         \o AttributeErrors_ExamplesFirst(g, path, i + 1)

\* for attribute in &self.attributes { .. }, from the i-th attribute on
RECURSIVE AttributeErrors(_, _, _)
AttributeErrors(g, path, i) ==
    IF i > Len(g.attributes)
    THEN <<>>
    ELSE BriefErrors(g, path, g.attributes[i])
         \o ExamplesErrors(g, path, g.attributes[i])
         \o AttributeErrors(g, path, i + 1)

\* CollectedErrors without the block of the event name rule.
CollectedErrors_NoEventRule(g, path) ==
    SpanFieldErrors(g, path)
    \o MetricErrors(g, path)
    \o AttributeErrors(g, path, 1)

\* The vector `errors` when the function reaches handle_errors.
CollectedErrors(g, path) ==
    SpanFieldErrors(g, path)
    \o EventNameErrors(g, path)
    \o MetricErrors(g, path)
    \o AttributeErrors(g, path, 1)

\* weaver_common::error::handle_errors
handle_errors(errs) ==
    IF Len(errs) = 0 THEN Ok
    ELSE IF Len(errs) = 1 THEN Err(errs[1])
    ELSE Err(CompoundError(errs))

\* validate returning Err(CompoundError(errors)) without handle_errors.
validate_AlwaysCompound(g, path) ==
    IF Len(CollectedErrors(g, path)) = 0
    THEN Ok
    ELSE Err(CompoundError(CollectedErrors(g, path)))

\* GroupSpec::validate
validate(g, path) == handle_errors(CollectedErrors(g, path))

(***************************************************************************)
(* Input sets.                                                             *)
(*                                                                         *)
(* The records of the model are of two families.  HeaderGroups vary every  *)
(* group-level field that validate reads, over attribute lists of up to    *)
(* MaxAttrs attributes taken from SampleAttributes, one attribute for each *)
(* outcome of the per-attribute rules.  AttributeGroups vary every field   *)
(* of every attribute, over lists of up to MaxAttrsExhaustive attributes,  *)
(* under every group type with and without a stray span_kind.              *)
(***************************************************************************)
RECURSIVE SeqsUpTo(_, _)
SeqsUpTo(S, n) ==
    IF n = 0 THEN {<<>>}
    ELSE LET shorter == SeqsUpTo(S, n - 1)
         IN  shorter \cup {Append(s, x) : s \in {t \in shorter : Len(t) = n - 1}, x \in S}

GroupIds == {"test"}

AttributeIds == {"attr.one", "attr.two"}

Provenances == {"<test>", "https://example.com/registry.yaml"}

OptString == {None, Some("test")}

Briefs == {None, Some(""), Some("test")}

ExampleString == [variant |-> "String", values |-> <<"test">>]

ExampleStrings == [variant |-> "Strings", values |-> <<"a", "b">>]

ExamplesValues == {None, Some(ExampleString), Some(ExampleStrings)}

InlineAttributes ==
    [variant : {"Id"}, id : AttributeIds, type : AttributeType, brief : Briefs,
     deprecated : OptString, examples : ExamplesValues]

RefAttributes == [variant : {"Ref"}, ref : AttributeIds]

AttributeSpecs == InlineAttributes \cup RefAttributes

Inline(id, type, brief, deprecated, examples) ==
    [variant |-> "Id", id |-> id, type |-> type, brief |-> brief,
     deprecated |-> deprecated, examples |-> examples]

SampleAttributes ==
    {[variant |-> "Ref", ref |-> "attr.two"],
     \* the attribute of the tests: deprecated, no brief, with examples
     Inline("attr.one", TypeString, None, Some("test"), Some(ExampleString)),
     \* no brief and no examples: two errors
     Inline("attr.one", TypeString, None, None, None),
     \* a string array without examples: one error
     Inline("attr.two", TypeStrings, Some("test"), None, None),
     \* another type without brief: one error
     Inline("attr.two", TypeInt, None, None, None)}

HeaderGroups ==
    [id : GroupIds, type : GroupType, prefix : {"", "test"},
     attributes : SeqsUpTo(SampleAttributes, MaxAttrs),
     span_kind : {None, Some("Client")},
     events : {<<>>, <<"event">>},
     metric_name : OptString,
     instrument : {None, Some("Counter")},
     unit : OptString,
     name : OptString]

AttributeGroups ==
    [id : GroupIds, type : GroupType, prefix : {"test"},
     attributes : SeqsUpTo(AttributeSpecs, MaxAttrsExhaustive),
     span_kind : {None, Some("Client")},
     events : {<<>>},
     metric_name : {None},
     instrument : {None},
     unit : {None},
     name : {None}]

Groups == HeaderGroups \cup AttributeGroups

(***************************************************************************)
(* The state machine.                                                      *)
(***************************************************************************)
Pending == [tag |-> "Pending"]

Init ==
    /\ group \in Groups
    /\ path_or_url \in Provenances
    /\ pc = "ready"
    /\ result = Pending

\* let result = group.validate(path_or_url);
Validate ==
    /\ pc = "ready"
    /\ result' = validate(group, path_or_url)
    /\ pc' = "done"
    /\ UNCHANGED <<group, path_or_url>>

Next == Validate

Spec == Init /\ [][Next]_vars

\* The records of HeaderGroups alone: every combination of the group-level
\* fields, which is what the rules scoped by the group type read.
InitHeader ==
    /\ group \in HeaderGroups
    /\ path_or_url \in Provenances
    /\ pc = "ready"
    /\ result = Pending

SpecHeader == InitHeader /\ [][Next]_vars

(***************************************************************************)
(* What a caller reads from the result, and the rules of the validation    *)
(* stated on the record alone.                                             *)
(***************************************************************************)
Done == pc = "done"

\* The errors enumerable from a result: none for Ok, the list of a
\* CompoundError, the error itself otherwise.
ErrorsOf(r) ==
    IF r.tag # "Err" THEN <<>>
    ELSE IF r.err.kind = "CompoundError" THEN r.err.errors
    ELSE <<r.err>>

Errors == ErrorsOf(result)

\* How many of the errors have this kind, message and attribute id.
CountErrors(kind, msg, aid) ==
    Cardinality({k \in 1..Len(Errors) :
        /\ Errors[k].kind = kind
        /\ Errors[k].error = msg
        /\ Errors[k].attribute_id = aid})

HasError(kind, msg) == \E k \in 1..Len(Errors) : Errors[k].kind = kind /\ Errors[k].error = msg

KindCount(kind) == Cardinality({k \in 1..Len(Errors) : Errors[k].kind = kind})

GroupRules == <<"1a", "1b", "1c", "1d.metric_name", "1d.instrument", "1d.unit">>

\* Every rule instance of a record in evaluation order: the six group rules,
\* then 2a and 2b for each attribute in declaration order.
RuleInstances(g) ==
    [k \in 1..(Len(GroupRules) + 2 * Len(g.attributes)) |->
        IF k <= Len(GroupRules)
        THEN [rule |-> GroupRules[k], index |-> 0]
        ELSE [rule |-> IF (k - Len(GroupRules)) % 2 = 1 THEN "2a" ELSE "2b",
              index |-> (k - Len(GroupRules) + 1) \div 2]]

IsInline(a) == a.variant = "Id"

Violates(g, inst) ==
    CASE inst.rule = "1a" -> g.type # "Span" /\ g.span_kind # None
      [] inst.rule = "1b" -> g.type # "Span" /\ g.events # <<>>
      [] inst.rule = "1c" -> g.type = "Event" /\ g.prefix = "" /\ g.name = None
      [] inst.rule = "1d.metric_name" -> g.type = "Metric" /\ g.metric_name = None
      [] inst.rule = "1d.instrument" -> g.type = "Metric" /\ g.instrument = None
      [] inst.rule = "1d.unit" -> g.type = "Metric" /\ g.unit = None
      [] inst.rule = "2a" ->
            LET a == g.attributes[inst.index]
            IN  IsInline(a) /\ a.brief = None /\ a.deprecated = None
      [] inst.rule = "2b" ->
            LET a == g.attributes[inst.index]
            IN  IsInline(a) /\ a.examples = None /\ a.type \in {TypeString, TypeStrings}

ViolatedInstances(g) == SelectSeq(RuleInstances(g), LAMBDA inst : Violates(g, inst))

\* The error value that reports a violated rule instance.
ErrorOf(g, path, inst) ==
    [kind |-> CASE inst.rule \in {"1a", "1b", "1c"} -> "InvalidGroup"
                [] inst.rule \in {"2a", "2b"} -> "InvalidAttribute"
                [] OTHER -> "InvalidMetric",
     path_or_url |-> path,
     group_id |-> g.id,
     attribute_id |-> IF inst.index = 0 THEN None ELSE Some(g.attributes[inst.index].id),
     error |-> CASE inst.rule = "1a" -> MsgSpanKind
                 [] inst.rule = "1b" -> MsgEvents
                 [] inst.rule = "1c" -> MsgEventName
                 [] inst.rule = "1d.metric_name" -> MsgMetricName
                 [] inst.rule = "1d.instrument" -> MsgInstrument
                 [] inst.rule = "1d.unit" -> MsgUnit
                 [] inst.rule = "2a" -> MsgNoBrief
                 [] inst.rule = "2b" ->
                       IF g.attributes[inst.index].type = TypeString
                       THEN MsgStringExamples ELSE MsgStringsExamples]

(***************************************************************************)
(* The claims.                                                             *)
(***************************************************************************)
\* C1: validate returns Ok(()) if and only if the record violates none of the
\* rules 1a, 1b, 1c, 1d, 2a, 2b; when a rule is violated it returns Err with
\* a non-empty set of errors.
C1_OkIffNoViolation ==
    Done =>
        /\ (result = Ok) <=> (ViolatedInstances(group) = <<>>)
        /\ (ViolatedInstances(group) # <<>>) => (result.tag = "Err" /\ Len(Errors) >= 1)

C1_Witness ==
    /\ Done
    /\ group.type = "Event"
    /\ Len(ViolatedInstances(group)) = 1
    /\ result.tag = "Err"

\* C2: the errors enumerable from the result are exactly one error per
\* violated rule instance, none dropped and none duplicated, in the order
\* 1a, 1b, 1c, 1d (metric_name, instrument, unit), then per attribute in
\* declaration order 2a followed by 2b.  A Metric record with span_kind set,
\* events non-empty and the three metric fields absent has 2 InvalidGroup then
\* 3 InvalidMetric errors; an inline String attribute without brief,
\* deprecated and examples has 2 InvalidAttribute errors.
C2_ErrorsInRuleOrder ==
    Done =>
        LET vi == ViolatedInstances(group) IN
        /\ Len(Errors) = Len(vi)
        /\ \A k \in 1..Len(vi) : Errors[k] = ErrorOf(group, path_or_url, vi[k])
        /\ (/\ group.type = "Metric" /\ group.span_kind # None /\ group.events # <<>>
            /\ group.metric_name = None /\ group.instrument = None /\ group.unit = None
            /\ group.attributes = <<>>)
           => /\ Len(Errors) = 5
              /\ \A k \in 1..2 : Errors[k].kind = "InvalidGroup"
              /\ \A k \in 3..5 : Errors[k].kind = "InvalidMetric"
        /\ (/\ Len(group.attributes) = 1
            /\ IsInline(group.attributes[1])
            /\ group.attributes[1].type = TypeString
            /\ group.attributes[1].brief = None
            /\ group.attributes[1].deprecated = None
            /\ group.attributes[1].examples = None)
           => KindCount("InvalidAttribute") = 2

C2_Witness ==
    /\ Done
    /\ group.type = "Metric"
    /\ Len(group.attributes) = 2
    /\ Len(Errors) = 8
    /\ Errors[1].error = MsgSpanKind
    /\ Errors[5].error = MsgUnit
    /\ Errors[6].error = MsgNoBrief
    /\ Errors[6].attribute_id = Some("attr.one")
    /\ Errors[8].attribute_id = Some("attr.two")

\* C3: for a record whose type is not Span, the result holds the span_kind
\* error if and only if span_kind is set and, independently, the events error
\* if and only if events is non-empty; for a Span record neither error is
\* produced.
C3_SpanOnlyFields ==
    Done =>
        /\ group.type # "Span" =>
              /\ HasError("InvalidGroup", MsgSpanKind) <=> (group.span_kind # None)
              /\ HasError("InvalidGroup", MsgEvents) <=> (group.events # <<>>)
        /\ group.type = "Span" =>
              /\ ~HasError("InvalidGroup", MsgSpanKind)
              /\ ~HasError("InvalidGroup", MsgEvents)

C3_Witness ==
    /\ Done
    /\ group.type = "Resource"
    /\ group.span_kind # None
    /\ group.events # <<>>
    /\ HasError("InvalidGroup", MsgSpanKind)
    /\ HasError("InvalidGroup", MsgEvents)

\* C4: for a Metric record the result holds exactly one InvalidMetric error
\* for each of metric_name, instrument and unit that is absent and none for a
\* field that is present; for any other type it holds no InvalidMetric error.
C4_MetricFields ==
    Done =>
        /\ group.type = "Metric" =>
              /\ CountErrors("InvalidMetric", MsgMetricName, None)
                    = (IF group.metric_name = None THEN 1 ELSE 0)
              /\ CountErrors("InvalidMetric", MsgInstrument, None)
                    = (IF group.instrument = None THEN 1 ELSE 0)
              /\ CountErrors("InvalidMetric", MsgUnit, None)
                    = (IF group.unit = None THEN 1 ELSE 0)
              /\ KindCount("InvalidMetric")
                    = Cardinality({f \in {"metric_name", "instrument", "unit"} :
                                      group[f] = None})
        /\ group.type # "Metric" => KindCount("InvalidMetric") = 0

C4_Witness ==
    /\ Done
    /\ group.type = "Metric"
    /\ group.metric_name # None
    /\ group.instrument = None
    /\ group.unit = None
    /\ KindCount("InvalidMetric") = 2

\* C5: the result holds the "event type but the prefix is empty and the name
\* is not set" error if and only if the type is Event, the prefix is empty
\* and the name is absent.
C5_EventName ==
    Done =>
        (HasError("InvalidGroup", MsgEventName)
            <=> (group.type = "Event" /\ group.prefix = "" /\ group.name = None))

C5_Witness ==
    /\ Done
    /\ group.type = "Event"
    /\ group.prefix = ""
    /\ group.name = None
    /\ HasError("InvalidGroup", MsgEventName)

\* The positions of the inline-definition attributes of a record that carry
\* the id x and satisfy the test.
InlineWith(g, x, Test(_)) ==
    {i \in 1..Len(g.attributes) :
        /\ IsInline(g.attributes[i])
        /\ g.attributes[i].id = x
        /\ Test(g.attributes[i])}

\* C6: for every inline-definition attribute, the "not deprecated and does
\* not contain a brief" error tagged with its id is produced if and only if
\* its brief and its deprecated are both absent, whatever the group's type
\* and the attribute's type and examples: per id, there are as many such
\* errors as inline attributes of that id with both fields absent.
C6_NoBriefError ==
    Done =>
        /\ \A x \in AttributeIds :
              CountErrors("InvalidAttribute", MsgNoBrief, Some(x))
                 = Cardinality(InlineWith(group, x,
                       LAMBDA a : a.brief = None /\ a.deprecated = None))
        /\ \A k \in 1..Len(Errors) :
              Errors[k].error = MsgNoBrief
                 => /\ Errors[k].kind = "InvalidAttribute"
                    /\ Errors[k].attribute_id \in {Some(x) : x \in AttributeIds}

C6_Witness ==
    /\ Done
    /\ group.type = "Scope"
    /\ Len(group.attributes) = 1
    /\ IsInline(group.attributes[1])
    /\ group.attributes[1].brief = None
    /\ group.attributes[1].deprecated = None
    /\ group.attributes[1].type = TypeInt
    /\ group.attributes[1].examples # None
    /\ CountErrors("InvalidAttribute", MsgNoBrief, Some(group.attributes[1].id)) = 1

ExamplesMessages == {MsgStringExamples, MsgStringsExamples}

\* C7: for an inline-definition attribute with examples absent, validate
\* produces the "string" examples error when the type is String, the "string
\* array" examples error when the type is Strings and no examples error for
\* another type; with examples present it produces no examples error whatever
\* the type.  At most one examples error is produced per attribute.
C7_ExamplesError ==
    Done =>
        /\ \A x \in AttributeIds :
              /\ CountErrors("InvalidAttribute", MsgStringExamples, Some(x))
                    = Cardinality(InlineWith(group, x,
                          LAMBDA a : a.examples = None /\ a.type = TypeString))
              /\ CountErrors("InvalidAttribute", MsgStringsExamples, Some(x))
                    = Cardinality(InlineWith(group, x,
                          LAMBDA a : a.examples = None /\ a.type = TypeStrings))
              /\ CountErrors("InvalidAttribute", MsgStringExamples, Some(x))
                    + CountErrors("InvalidAttribute", MsgStringsExamples, Some(x))
                    <= Cardinality(InlineWith(group, x, LAMBDA a : TRUE))
        /\ \A k \in 1..Len(Errors) :
              Errors[k].error \in ExamplesMessages
                 => /\ Errors[k].kind = "InvalidAttribute"
                    /\ Errors[k].attribute_id \in {Some(x) : x \in AttributeIds}

C7_Witness ==
    /\ Done
    /\ Len(group.attributes) = 1
    /\ IsInline(group.attributes[1])
    /\ group.attributes[1].type = TypeStrings
    /\ group.attributes[1].examples = None
    /\ group.attributes[1].brief # None
    /\ result.tag = "Err"
    /\ result.err.kind = "InvalidAttribute"
    /\ result.err.error = MsgStringsExamples

\* C8: reference attributes never produce InvalidAttribute errors: every
\* InvalidAttribute error carries the id of an inline-definition attribute of
\* the record, and a record whose attributes are all references gets no
\* InvalidAttribute error.
C8_ReferencesExempt ==
    Done =>
        /\ \A k \in 1..Len(Errors) :
              Errors[k].kind = "InvalidAttribute"
                 => \E i \in 1..Len(group.attributes) :
                       /\ IsInline(group.attributes[i])
                       /\ Errors[k].attribute_id = Some(group.attributes[i].id)
        /\ (\A i \in 1..Len(group.attributes) : ~IsInline(group.attributes[i]))
              => KindCount("InvalidAttribute") = 0

C8_Witness ==
    /\ Done
    /\ Len(group.attributes) = 2
    /\ ~IsInline(group.attributes[1])
    /\ group.attributes[1].ref = "attr.two"
    /\ IsInline(group.attributes[2])
    /\ group.attributes[2].id = "attr.one"
    /\ KindCount("InvalidAttribute") = 2
    /\ CountErrors("InvalidAttribute", MsgNoBrief, Some("attr.two")) = 0

\* C9: a record that violates exactly one rule gets Err holding that error
\* itself, not wrapped; a record that violates two or more rules gets
\* Err(CompoundError(list)) with all the errors in evaluation order; a
\* CompoundError never holds fewer than two errors.
C9_SingleOrCompound ==
    Done =>
        LET vi == ViolatedInstances(group) IN
        /\ Len(vi) = 1 =>
              /\ result.tag = "Err"
              /\ result.err.kind # "CompoundError"
              /\ result.err = ErrorOf(group, path_or_url, vi[1])
        /\ Len(vi) >= 2 =>
              /\ result.tag = "Err"
              /\ result.err.kind = "CompoundError"
              /\ result.err.errors = [k \in 1..Len(vi) |-> ErrorOf(group, path_or_url, vi[k])]
        /\ (result.tag = "Err" /\ result.err.kind = "CompoundError")
              => Len(result.err.errors) >= 2

C9_Witness ==
    /\ Done
    /\ Len(ViolatedInstances(group)) = 1
    /\ Len(group.attributes) = 1
    /\ result.tag = "Err"
    /\ result.err.kind = "InvalidAttribute"

\* C10 as stated: every inline attribute whose deprecated is absent and whose
\* brief is absent or the empty string gets an error from validate.
C10_NonEmptyBriefRequired ==
    Done =>
        \A i \in 1..Len(group.attributes) :
            LET a == group.attributes[i] IN
            (IsInline(a) /\ a.deprecated = None /\ a.brief \in {None, Some("")})
               => /\ result.tag = "Err"
                  /\ \E k \in 1..Len(Errors) :
                        /\ Errors[k].kind = "InvalidAttribute"
                        /\ Errors[k].attribute_id = Some(a.id)

\* C10, amended: every inline attribute must have a brief field unless it is
\* marked deprecated: an inline attribute whose deprecated is absent and
\* whose brief is absent gets the no-brief error from validate; a brief that
\* is present, the empty string included, is accepted.
C10_BriefRequiredUnlessDeprecated ==
    Done =>
        /\ \A i \in 1..Len(group.attributes) :
              LET a == group.attributes[i] IN
              (IsInline(a) /\ a.deprecated = None /\ a.brief = None)
                 => /\ result.tag = "Err"
                    /\ \E k \in 1..Len(Errors) :
                          /\ Errors[k].kind = "InvalidAttribute"
                          /\ Errors[k].error = MsgNoBrief
                          /\ Errors[k].attribute_id = Some(a.id)
        /\ (\A i \in 1..Len(group.attributes) :
               IsInline(group.attributes[i]) => group.attributes[i].brief # None)
              => \A k \in 1..Len(Errors) : Errors[k].error # MsgNoBrief

C10_Witness ==
    /\ Done
    /\ group.type = "Span"
    /\ Len(group.attributes) = 1
    /\ IsInline(group.attributes[1])
    /\ group.attributes[1].deprecated = None
    /\ group.attributes[1].brief = None
    /\ group.attributes[1].examples # None
    /\ result.tag = "Err"
    /\ result.err.error = MsgNoBrief

\* The values the fields metric_name, instrument, unit and name can take.
InstrumentValues == {None} \cup {Some(x) : x \in InstrumentSpec}

\* The record with its three metric fields replaced.
WithMetricFields(g, m, i, u) ==
    [g EXCEPT !.metric_name = m, !.instrument = i, !.unit = u]

\* The record with its name replaced.
WithName(g, n) == [g EXCEPT !.name = n]

GroupLevelErrors == KindCount("InvalidGroup") + KindCount("InvalidMetric")

\* C11: the kind-scoped required fields are checked only under their own
\* kind and their stray presence is never reported: two records that differ
\* only in metric_name, instrument and unit and whose type is not Metric get
\* equal results, and two records that differ only in name and whose type is
\* not Event get equal results.  A Span record never gets an InvalidGroup or
\* InvalidMetric error, rules 1c and 1d never both fire, and at most 5
\* group-level errors are produced.
C11_KindScopedFields ==
    Done =>
        /\ group.type # "Metric" =>
              \A m \in OptString, i \in InstrumentValues, u \in OptString :
                  validate(WithMetricFields(group, m, i, u), path_or_url) = result
        /\ group.type # "Event" =>
              \A n \in OptString : validate(WithName(group, n), path_or_url) = result
        /\ group.type = "Span" =>
              KindCount("InvalidGroup") = 0 /\ KindCount("InvalidMetric") = 0
        /\ ~(HasError("InvalidGroup", MsgEventName) /\ KindCount("InvalidMetric") > 0)
        /\ GroupLevelErrors <= 5

C11_Witness ==
    /\ Done
    /\ group.type = "Resource"
    /\ group.metric_name # None
    /\ group.instrument = None
    /\ group.unit # None
    /\ group.name # None
    /\ group.prefix = ""
    /\ group.span_kind # None
    /\ group.events # <<>>
    /\ GroupLevelErrors = 2
    /\ validate(WithName(WithMetricFields(group, None, Some("Gauge"), None), None),
                path_or_url) = result

====
